---- MODULE Spec2Model ----
(***************************************************************************)
(* A model of skfem's DiscreteField (element/discrete_field.py) and of     *)
(* Functional (assembly/form/functional.py).                               *)
(*                                                                         *)
(* Python objects are tagged records [kind, val]: None, a 0-dimensional    *)
(* number ("scalar"), a numeric array ("ndarray", a sequence along its     *)
(* leading axis), a DiscreteField, a list, or a raised exception.          *)
(***************************************************************************)
EXTENDS Integers, Sequences, FiniteSets, TLC

VARIABLES fld, other, op, ret, form, dx, call, prev

vars == <<fld, other, op, ret, form, dx, call, prev>>

(* ------------------------------ bounds --------------------------------- *)

\* longest leading axis of a DiscreteField component
MaxLen == 2
\* number of elements of the interior basis
MaxElems == 2
\* number of quadrature points per element
MaxQuad == 2

\* sample entries of the arrays
Vals == {1, 2}

(* --------------------------- Python objects ---------------------------- *)

None == [kind |-> "NoneType", val |-> <<>>]

Scalar(v) == [kind |-> "scalar", val |-> v]

NdArray(s) == [kind |-> "ndarray", val |-> s]

Raise(e) == [kind |-> "error", val |-> e]

List(s) == [kind |-> "list", val |-> s]

IsNone(o) == o.kind = "NoneType"

\* arrays with a leading axis of length n
ArraysOfLen(n) == {NdArray(s) : s \in [1..n -> Vals]}

Arrays == UNION {ArraysOfLen(n) : n \in 1..MaxLen}

(* ---------------------------- DiscreteField ---------------------------- *)

\* the slots of the NamedTuple, in declaration order
Slots == <<"value", "grad", "div", "curl", "ggrad">>

\* positional construction; slots not given default to None
DiscreteField(args) ==
    [kind |-> "DiscreteField",
     val  |-> [s \in {Slots[k] : k \in 1..Len(Slots)} |->
                 LET k == CHOOSE j \in 1..Len(Slots) : Slots[j] = s
                 IN  IF k <= Len(args) THEN args[k] ELSE None]]

\* iteration over the tuple: its slots in declaration order
Iter(x) == [k \in 1..Len(Slots) |-> x.val[Slots[k]]]

f(x) == x.val.value

\* a variant that looks at div before grad
dfDivFirst(x) ==
    IF ~IsNone(x.val.div) THEN x.val.div
    ELSE IF ~IsNone(x.val.grad) THEN x.val.grad
    ELSE IF ~IsNone(x.val.curl) THEN x.val.curl
    ELSE None

df(x) ==
    IF ~IsNone(x.val.grad) THEN x.val.grad
    ELSE IF ~IsNone(x.val.div) THEN x.val.div
    ELSE IF ~IsNone(x.val.curl) THEN x.val.curl
    ELSE None

ddf(x) == x.val.ggrad

\* x[i] on an array: the i-th slice along the leading axis (i from 1 here)
GetItem(x, i) ==
    IF x.kind = "ndarray" /\ i <= Len(x.val) THEN Scalar(x.val[i])
    ELSE Raise("IndexError")

\* np.zeros_like
np_zeros_like(x) ==
    IF x.kind = "ndarray" THEN NdArray([i \in 1..Len(x.val) |-> 0])
    ELSE Scalar(0)

zero_or_none(x) == IF IsNone(x) THEN None ELSE np_zeros_like(x)

\* a variant that drops the absent slots before rebuilding the tuple
zeros_like_compact(x) ==
    LET present == SelectSeq(Iter(x), LAMBDA c : ~IsNone(c))
    IN  DiscreteField([k \in 1..Len(present) |-> np_zeros_like(present[k])])

zeros_like(x) ==
    DiscreteField([k \in 1..Len(Slots) |-> zero_or_none(Iter(x)[k])])

\* the i-th field that _split builds: the present slots, sliced, passed
\* positionally
SplitItem(x, i) ==
    LET present == SelectSeq(Iter(x), LAMBDA c : ~IsNone(c))
        sliced  == [k \in 1..Len(present) |-> GetItem(present[k], i)]
    IN  IF \E k \in 1..Len(sliced) : sliced[k].kind = "error"
        THEN Raise("IndexError")
        ELSE DiscreteField(sliced)

\* a variant that takes the count from the first present component
_split_first_present(x) ==
    LET present == SelectSeq(Iter(x), LAMBDA c : ~IsNone(c))
    IN  IF Len(present) = 0 THEN Raise("AttributeError")
        ELSE List([i \in 1..Len(present[1].val) |-> SplitItem(x, i)])

_split(x) ==
    IF IsNone(f(x)) THEN Raise("AttributeError")
    ELSE LET n     == Len(f(x).val)
             items == [i \in 1..n |-> SplitItem(x, i)]
         IN  IF \E i \in 1..n : items[i].kind = "error"
             THEN Raise("IndexError")
             ELSE List(items)

__array__(x) == f(x)

\* numpy's broadcasting of two operands, each 0-dimensional or with one axis
Broadcastable(x, y) ==
    /\ x.kind \in {"scalar", "ndarray"}
    /\ y.kind \in {"scalar", "ndarray"}
    /\ (x.kind = "ndarray" /\ y.kind = "ndarray") =>
          \/ Len(x.val) = Len(y.val)
          \/ Len(x.val) = 1
          \/ Len(y.val) = 1

\* entry i of an operand stretched to the broadcast shape
Entry(x, i) ==
    IF x.kind = "scalar" THEN x.val
    ELSE IF Len(x.val) = 1 THEN x.val[1] ELSE x.val[i]

\* x * y on numbers and arrays; None has no product
np_multiply(x, y) ==
    IF ~(x.kind \in {"scalar", "ndarray"} /\ y.kind \in {"scalar", "ndarray"})
    THEN Raise("TypeError")
    ELSE IF ~Broadcastable(x, y) THEN Raise("ValueError")
    ELSE IF x.kind = "scalar" /\ y.kind = "scalar" THEN Scalar(x.val * y.val)
    ELSE LET n == IF x.kind = "scalar" THEN Len(y.val)
                  ELSE IF y.kind = "scalar" THEN Len(x.val)
                  ELSE IF Len(x.val) >= Len(y.val) THEN Len(x.val)
                  ELSE Len(y.val)
         IN  NdArray([i \in 1..n |-> Entry(x, i) * Entry(y, i)])

\* a variant that wraps the product in a value-only field
__mul__as_field(self, o) ==
    LET p == IF o.kind = "DiscreteField" THEN np_multiply(f(self), f(o))
             ELSE np_multiply(f(self), o)
    IN  IF p.kind = "error" THEN p ELSE DiscreteField(<<p>>)

\* a variant that multiplies by the derivative of the other field
__mul__by_df(self, o) ==
    IF o.kind = "DiscreteField"
    THEN np_multiply(f(self), IF IsNone(df(o)) THEN f(o) ELSE df(o))
    ELSE np_multiply(f(self), o)

__mul__(self, o) ==
    IF o.kind = "DiscreteField" THEN np_multiply(f(self), f(o))
    ELSE np_multiply(f(self), o)

__rmul__(self, o) == __mul__(self, o)

\* the expression x * y with at least one DiscreteField operand: a field on
\* the left multiplies by __mul__; an array on the left multiplies itself by
\* what the field's __array__ gives; a plain number on the left leaves the
\* product to the field's __rmul__
BinaryMul(x, y) ==
    IF x.kind = "DiscreteField" THEN __mul__(x, y)
    ELSE IF x.kind = "ndarray" THEN np_multiply(x, __array__(y))
    ELSE __rmul__(y, x)

\* the components a slot of a field with leading axis n may hold
SlotValues(n) == ArraysOfLen(n) \cup {None}

NoCall == [ubasis |-> "none", vbasis |-> "None", w |-> None, nthreads |-> 0,
           ret |-> None, evaluated |-> FALSE]

IdleFunctional ==
    /\ form = "none"
    /\ dx = <<>>
    /\ call = NoCall
    /\ prev = NoCall

\* any field whose present components share their leading axis
InitField ==
    /\ \E n \in 1..MaxLen :
          \E v \in SlotValues(n), g \in SlotValues(n), d \in SlotValues(n),
             c \in SlotValues(n), gg \in SlotValues(n) :
                fld = DiscreteField(<<v, g, d, c, gg>>)
    /\ other = None
    /\ op = "new"
    /\ ret = None
    /\ IdleFunctional

Get_f ==
    /\ op' = "f"
    /\ ret' = f(fld)
    /\ UNCHANGED <<fld, other, form, dx, call, prev>>

Get_df ==
    /\ op' = "df"
    /\ ret' = df(fld)
    /\ UNCHANGED <<fld, other, form, dx, call, prev>>

Get_ddf ==
    /\ op' = "ddf"
    /\ ret' = ddf(fld)
    /\ UNCHANGED <<fld, other, form, dx, call, prev>>

ZerosLike ==
    /\ op' = "zeros_like"
    /\ ret' = zeros_like(fld)
    /\ UNCHANGED <<fld, other, form, dx, call, prev>>

Split ==
    /\ op' = "_split"
    /\ ret' = _split(fld)
    /\ UNCHANGED <<fld, other, form, dx, call, prev>>

NextField == Get_f \/ Get_df \/ Get_ddf \/ ZerosLike \/ Split

SpecField == InitField /\ [][NextField]_vars

(* ------------------- properties of DiscreteField ----------------------- *)

SlotSet == {Slots[k] : k \in 1..Len(Slots)}

\* C7: f is the value slot; df is grad if present, else div if present,
\* else curl if present, else absent; ddf is the ggrad slot.
C7_Accessors ==
    /\ op = "f" => ret = fld.val.value
    /\ op = "ddf" => ret = fld.val.ggrad
    /\ op = "df" =>
          /\ ~IsNone(fld.val.grad) => ret = fld.val.grad
          /\ IsNone(fld.val.grad) /\ ~IsNone(fld.val.div) => ret = fld.val.div
          /\ IsNone(fld.val.grad) /\ IsNone(fld.val.div)
                => ret = fld.val.curl

C7_Witness ==
    /\ op = "df"
    /\ IsNone(fld.val.grad) /\ ~IsNone(fld.val.div) /\ ~IsNone(fld.val.curl)
    /\ fld.val.div # fld.val.curl
    /\ ret = fld.val.div

\* C3: slot s of zeros_like() is present exactly when slot s of the field
\* is, and then it is an all-zero array of the same shape.
C3_ZerosLike ==
    op = "zeros_like" =>
        /\ ret.kind = "DiscreteField"
        /\ \A s \in SlotSet :
              /\ IsNone(ret.val[s]) <=> IsNone(fld.val[s])
              /\ ~IsNone(fld.val[s]) =>
                    /\ ret.val[s].kind = "ndarray"
                    /\ Len(ret.val[s].val) = Len(fld.val[s].val)
                    /\ \A i \in 1..Len(ret.val[s].val) : ret.val[s].val[i] = 0

C3_Witness ==
    /\ op = "zeros_like"
    /\ ~IsNone(fld.val.value) /\ ~IsNone(fld.val.grad)
    /\ IsNone(fld.val.div) /\ IsNone(fld.val.curl) /\ IsNone(fld.val.ggrad)
    /\ Len(fld.val.value.val) = MaxLen
    /\ ret = DiscreteField(<<NdArray([i \in 1..MaxLen |-> 0]),
                             NdArray([i \in 1..MaxLen |-> 0])>>)

\* C4: with value present and of leading length n, _split returns n fields
\* and slot s of the i-th one is the i-th slice of slot s of the field when
\* that slot is present, and absent when it is absent.
C4_SplitKeepsSlots ==
    (op = "_split" /\ ~IsNone(fld.val.value)) =>
        /\ ret.kind = "list"
        /\ Len(ret.val) = Len(fld.val.value.val)
        /\ \A i \in 1..Len(ret.val) : \A s \in SlotSet :
              IF IsNone(fld.val[s])
              THEN IsNone(ret.val[i].val[s])
              ELSE ret.val[i].val[s] = Scalar(fld.val[s].val[i])

\* C10: with value absent _split raises and returns no sequence, whatever
\* the other slots hold.
C10_SplitNeedsValue ==
    (op = "_split" /\ IsNone(fld.val.value)) => ret.kind = "error"

C10_Witness ==
    /\ op = "_split"
    /\ IsNone(fld.val.value)
    /\ ~IsNone(fld.val.grad) /\ Len(fld.val.grad.val) = MaxLen
    /\ ret = Raise("AttributeError")

(* --------------------------- multiplication ---------------------------- *)

Ones(n) == NdArray([i \in 1..n |-> 1])

\* a derivative slot of an operand: absent or present
DerivValues(n) == {None, Ones(n)}

\* the right operand is a DiscreteField (any value, each derivative slot
\* absent or present), an array or a number
IsOperand(o) ==
    \/ \E n \in 1..MaxLen :
          \E v \in SlotValues(n), g \in DerivValues(n), d \in DerivValues(n),
             c \in DerivValues(n), gg \in DerivValues(n) :
                o = DiscreteField(<<v, g, d, c, gg>>)
    \/ o \in Arrays
    \/ \E v \in Vals : o = Scalar(v)

InitMul ==
    /\ \E n \in 1..MaxLen :
          \E v \in SlotValues(n), g \in DerivValues(n), d \in DerivValues(n),
             c \in DerivValues(n), gg \in DerivValues(n) :
                fld = DiscreteField(<<v, g, d, c, gg>>)
    /\ IsOperand(other)
    /\ op = "new"
    /\ ret = None
    /\ IdleFunctional

\* fld * other
Mul ==
    /\ op' = "__mul__"
    /\ ret' = BinaryMul(fld, other)
    /\ UNCHANGED <<fld, other, form, dx, call, prev>>

\* other * fld
RMul ==
    /\ op' = "__rmul__"
    /\ ret' = BinaryMul(other, fld)
    /\ UNCHANGED <<fld, other, form, dx, call, prev>>

NextMul == Mul \/ RMul

SpecMul == InitMul /\ [][NextMul]_vars

\* the numeric content of an operand of a product
ValueOf(x) == IF x.kind = "DiscreteField" THEN x.val.value ELSE x

\* both operands carry numbers of compatible shapes
Multipliable ==
    /\ op \in {"__mul__", "__rmul__"}
    /\ ~IsNone(ValueOf(fld))
    /\ ~IsNone(ValueOf(other))
    /\ Broadcastable(ValueOf(fld), ValueOf(other))

\* C5 as stated: the product is itself a DiscreteField, value-only.
C5_ProductIsField ==
    Multipliable =>
        /\ ret.kind = "DiscreteField"
        /\ ~IsNone(ret.val.value)
        /\ \A s \in {"grad", "div", "curl", "ggrad"} : IsNone(ret.val[s])

\* C5 as amended: the product of a DiscreteField with a DiscreteField, an
\* array or a number, in either order, is a raw numeric array and not a
\* DiscreteField; it has no derivative slot at all.
C5_ProductIsArray ==
    Multipliable => ret.kind = "ndarray"

C5_Witness ==
    /\ Multipliable
    /\ other.kind = "DiscreteField"
    /\ ~IsNone(fld.val.grad) /\ ~IsNone(other.val.grad)
    /\ ret.kind = "ndarray"

\* C6: the product is the elementwise product of the value components
\* alone, whatever the derivative slots hold, in either operand order.
C6_ProductOfValues ==
    Multipliable =>
        LET a == ValueOf(fld)
            b == ValueOf(other)
        IN  /\ ret.kind = "ndarray"
            /\ Len(ret.val) = (IF b.kind = "ndarray" /\ Len(b.val) > Len(a.val)
                                THEN Len(b.val) ELSE Len(a.val))
            /\ \A i \in 1..Len(ret.val) :
                 ret.val[i] = (IF Len(a.val) = 1 THEN a.val[1] ELSE a.val[i])
                              * (IF b.kind = "scalar" THEN b.val
                                 ELSE IF Len(b.val) = 1 THEN b.val[1]
                                 ELSE b.val[i])

C6_Witness ==
    /\ op = "__mul__"
    /\ other.kind = "DiscreteField"
    /\ ~IsNone(fld.val.grad) /\ ~IsNone(other.val.div)
    /\ fld.val.value = NdArray([i \in 1..MaxLen |-> 2])
    /\ other.val.value = NdArray([i \in 1..MaxLen |-> 2])
    /\ ret = NdArray([i \in 1..MaxLen |-> 4])

(* ------------------------------ Functional ----------------------------- *)

Bases == {"interior", "facet"}

\* the kernels a Functional may wrap: the integrand 1, and the integrand w.w
Forms == {"one", "w"}

RECURSIVE SumSeq(_)
SumSeq(s) == IF Len(s) = 0 THEN 0 ELSE s[1] + SumSeq(Tail(s))

\* a per-element array tiled over the quadrature points of each element
elemental(x, nq) == NdArray([e \in 1..Len(x) |-> [q \in 1..nq |-> x[e]]])

\* the bundle handed to the kernel: the caller's w with the basis' data
parameters(w, basisdx) == [w |-> w, dx |-> basisdx]

\* the user's integrand evaluated on the bundle
ApplyForm(name, p) == IF name = "one" THEN Scalar(1) ELSE p.w

\* k * dx for an integrand k that is a number or an (element, point) array
TimesDx(k, d) ==
    IF k.kind = "scalar"
    THEN NdArray([e \in 1..Len(d) |-> [q \in 1..Len(d[e]) |-> k.val * d[e][q]]])
    ELSE IF k.kind # "ndarray" THEN Raise("TypeError")
    ELSE IF Len(k.val) # Len(d)
            \/ \E e \in 1..Len(d) : Len(k.val[e]) # Len(d[e])
    THEN Raise("ValueError")
    ELSE NdArray([e \in 1..Len(d) |->
                    [q \in 1..Len(d[e]) |-> k.val[e][q] * d[e][q]]])

\* a variant that sums over the elements (axis 0) instead of the points
kernel_axis0(name, w, d) ==
    LET p == TimesDx(ApplyForm(name, w), d)
    IN  IF p.kind = "error" THEN p
        ELSE NdArray([q \in 1..Len(p.val[1]) |->
                        SumSeq([e \in 1..Len(p.val) |-> p.val[e][q]])])

\* np.sum(self.form(w) * dx, axis=1)
kernel(name, w, d) ==
    LET p == TimesDx(ApplyForm(name, w), d)
    IN  IF p.kind = "error" THEN p
        ELSE NdArray([e \in 1..Len(p.val) |-> SumSeq(p.val[e])])

\* a variant without the check of vbasis
assemble_unchecked(name, d, ubasis, vbasis, w, nthreads) ==
    [ret |-> kernel(name, parameters(w, d[ubasis]), d[ubasis]),
     evaluated |-> TRUE]

\* a variant that hands each thread a chunk and returns the first chunk
assemble_chunked(name, d, ubasis, vbasis, w, nthreads) ==
    IF vbasis # "None"
    THEN [ret |-> Raise("AssertionError"), evaluated |-> FALSE]
    ELSE LET n    == (Len(d[ubasis]) + nthreads - 1) \div nthreads
             part == SubSeq(d[ubasis], 1, n)
             wp   == IF w.kind = "ndarray"
                     THEN NdArray(SubSeq(w.val, 1, n)) ELSE w
         IN  [ret |-> kernel(name, parameters(wp, part), part),
              evaluated |-> TRUE]

\* the outcome of assemble: what it returns or raises, and whether the
\* kernel was evaluated on the way
assemble(name, d, ubasis, vbasis, w, nthreads) ==
    IF vbasis # "None"
    THEN [ret |-> Raise("AssertionError"), evaluated |-> FALSE]
    ELSE [ret |-> kernel(name, parameters(w, d[ubasis]), d[ubasis]),
          evaluated |-> TRUE]

IdleField ==
    /\ fld = None
    /\ other = None
    /\ op = "new"
    /\ ret = None

\* functional(form) over an interior basis and a facet basis whose measure
\* is quadrature weight times Jacobian determinant
InitFunctional ==
    /\ form \in Forms
    /\ \E W \in [1..MaxQuad -> Vals] : \E J \in [1..MaxElems -> Vals] :
          dx = [b \in Bases |->
                  IF b = "interior"
                  THEN [e \in 1..MaxElems |-> [q \in 1..MaxQuad |-> W[q] * J[e]]]
                  ELSE <<[q \in 1..MaxQuad |-> W[q]]>>]
    /\ call = NoCall
    /\ prev = NoCall
    /\ IdleField

\* the auxiliary fields a caller passes for a basis: none, or the indicator
\* of one element tiled over its quadrature points
AuxFields(b) ==
    {None} \cup
    {elemental([e \in 1..Len(dx[b]) |-> IF e = r THEN 1 ELSE 0], MaxQuad) :
        r \in 1..Len(dx[b])}

\* a variant that scales the basis' measure in place
AssembleCallInPlace(ubasis, vbasis, w, nthreads) ==
    LET out == assemble(form, dx, ubasis, vbasis, w, nthreads)
    IN  /\ call' = [ubasis |-> ubasis, vbasis |-> vbasis, w |-> w,
                    nthreads |-> nthreads, ret |-> out.ret,
                    evaluated |-> out.evaluated]
        /\ prev' = IF call.ret.kind = "ndarray" THEN call ELSE prev
        /\ dx' = IF out.evaluated /\ out.ret.kind = "ndarray"
                 THEN [dx EXCEPT ![ubasis] =
                         TimesDx(ApplyForm(form, parameters(w, dx[ubasis])),
                                 dx[ubasis]).val]
                 ELSE dx
        /\ UNCHANGED <<form, fld, other, op, ret>>

\* one call of assemble; prev is the last call that returned an array, which
\* the caller still holds
AssembleCall(ubasis, vbasis, w, nthreads) ==
    LET out == assemble(form, dx, ubasis, vbasis, w, nthreads)
    IN  /\ call' = [ubasis |-> ubasis, vbasis |-> vbasis, w |-> w,
                    nthreads |-> nthreads, ret |-> out.ret,
                    evaluated |-> out.evaluated]
        /\ prev' = IF call.ret.kind = "ndarray" THEN call ELSE prev
        /\ UNCHANGED <<form, dx, fld, other, op, ret>>

NextFunctional ==
    \E ubasis \in Bases : \E vbasis \in Bases \cup {"None"} :
        \E w \in AuxFields(ubasis) : \E nthreads \in {1, 4} :
            AssembleCall(ubasis, vbasis, w, nthreads)

SpecFunctional == InitFunctional /\ [][NextFunctional]_vars

(* --------------------- properties of Functional ------------------------ *)

\* C1: with a vbasis other than None assemble fails with an assertion
\* error, the kernel is not evaluated and nothing is returned; with vbasis
\* None the call proceeds to the kernel.
C1_VbasisMustBeNone ==
    call # NoCall =>
        IF call.vbasis # "None"
        THEN call.ret = Raise("AssertionError") /\ ~call.evaluated
        ELSE call.evaluated /\ call.ret # Raise("AssertionError")

C1_Witness ==
    /\ call.ubasis = "interior"
    /\ call.vbasis = "facet"
    /\ call.ret = Raise("AssertionError")
    /\ ~call.evaluated
    /\ prev.ret.kind = "ndarray"

\* the integrand of the call at element e and quadrature point q
Integrand(e, q) == IF form = "one" THEN 1 ELSE call.w.val[e][q]

\* C2: the returned array has one entry per element of the basis, and entry
\* e is the sum over the quadrature points q of that element of
\* kernel(w)[e][q] * dx[e][q].
C2_PerElementSum ==
    (call # NoCall /\ call.vbasis = "None"
       /\ (form = "one" \/ ~IsNone(call.w))) =>
        /\ call.ret.kind = "ndarray"
        /\ Len(call.ret.val) = Len(dx[call.ubasis])
        /\ \A e \in 1..Len(dx[call.ubasis]) :
              call.ret.val[e] =
                 SumSeq([q \in 1..Len(dx[call.ubasis][e]) |->
                            Integrand(e, q) * dx[call.ubasis][e][q]])

C2_Witness ==
    /\ form = "w"
    /\ call.ubasis = "interior"
    /\ call.vbasis = "None"
    /\ ~IsNone(call.w)
    /\ call.w.val[1][1] = 0
    /\ call.ret.kind = "ndarray"
    /\ call.ret.val[1] = 0
    /\ call.ret.val[MaxElems] > MaxQuad

\* C8: two calls on the same basis with the same w return the same array,
\* whatever nthreads each was given.
C8_ThreadCountInvariance ==
    (prev # NoCall /\ call.vbasis = "None"
       /\ call.ubasis = prev.ubasis /\ call.w = prev.w) =>
        call.ret = prev.ret

C8_Witness ==
    /\ prev.nthreads = 1
    /\ call.nthreads = 4
    /\ call.vbasis = "None"
    /\ call.ubasis = "interior" /\ prev.ubasis = "interior"
    /\ call.w = prev.w
    /\ call.ret.kind = "ndarray"
    /\ call.ret = prev.ret

\* C9: no call of assemble, failing or not, changes the Functional, the
\* measure of any basis, or the array an earlier call returned.
C9_Stateless ==
    [][/\ form' = form
       /\ dx' = dx
       /\ prev' = IF call.ret.kind = "ndarray" THEN call ELSE prev]_vars

C9_Witness ==
    /\ prev.ret.kind = "ndarray"
    /\ prev.ubasis = "interior"
    /\ call.ubasis = "facet"
    /\ call.vbasis = "interior"
    /\ call.ret.kind = "error"

====
